---- MODULE Spec2Model ----
(***************************************************************************)
(* The in-memory product catalog of product-service/index.js: the catalog  *)
(* array, the id counter, the two validation middlewares and the request   *)
(* handlers, as a state machine whose steps are whole requests.            *)
(*                                                                         *)
(* JavaScript values are records [t, n, s]: t is the kind, n the numeric   *)
(* content and s the characters of a string.  Numbers are fixed-point, in  *)
(* hundredths (999.99 is 99999), which holds every number of the seed      *)
(* catalog and of the request sets below.  A string is a sequence of       *)
(* one-character strings.  The string new Date().toISOString() returns is  *)
(* kept as the instant it denotes (kind "isodate"): ISO strings have one   *)
(* fixed width, so they compare as strings exactly as their instants       *)
(* compare as numbers.                                                     *)
(***************************************************************************)
EXTENDS Integers, Sequences, FiniteSets, TLC

(***************************************************************************)
(* JavaScript values                                                       *)
(***************************************************************************)
Undefined == [t |-> "undefined", n |-> 0, s |-> <<>>]

Null == [t |-> "null", n |-> 0, s |-> <<>>]

True == [t |-> "boolean", n |-> 1, s |-> <<>>]

False == [t |-> "boolean", n |-> 0, s |-> <<>>]

NaN == [t |-> "NaN", n |-> 0, s |-> <<>>]

\* the number h/100
Num(h) == [t |-> "number", n |-> h, s |-> <<>>]

\* the integer i
Whole(i) == Num(i * 100)

Str(cs) == [t |-> "string", n |-> 0, s |-> cs]

\* the ISO-8601 string of instant i
ISO(i) == [t |-> "isodate", n |-> i, s |-> <<>>]

\* typeof v === 'string'
IsString(v) == v.t \in {"string", "isodate"}

\* typeof v === 'number'
IsNumber(v) == v.t \in {"number", "NaN"}

\* the characters of the model, in code-unit order
Ascii ==
    <<" ","-",".","0","1","2","3","4","5","6","7","8","9",
      "A","B","C","D","E","F","G","H","I","J","K","L","M","N","O","P","Q",
      "R","S","T","U","V","W","X","Y","Z",
      "a","b","c","d","e","f","g","h","i","j","k","l","m","n","o","p","q",
      "r","s","t","u","v","w","x","y","z">>

Code(c) == CHOOSE i \in 1..Len(Ascii) : Ascii[i] = c

DigitChars == <<"0","1","2","3","4","5","6","7","8","9">>

IsDigit(c) == \E i \in 1..10 : DigitChars[i] = c

DigitVal(c) == (CHOOSE i \in 1..10 : DigitChars[i] = c) - 1

UpperChars ==
    <<"A","B","C","D","E","F","G","H","I","J","K","L","M","N","O","P","Q",
      "R","S","T","U","V","W","X","Y","Z">>

LowerChars ==
    <<"a","b","c","d","e","f","g","h","i","j","k","l","m","n","o","p","q",
      "r","s","t","u","v","w","x","y","z">>

LowerChar(c) ==
    IF \E i \in 1..26 : UpperChars[i] = c
    THEN LowerChars[CHOOSE i \in 1..26 : UpperChars[i] = c]
    ELSE c

\* String.prototype.toLowerCase, on characters
LowerSeq(cs) == [i \in 1..Len(cs) |-> LowerChar(cs[i])]

RECURSIVE TrimStartSeq(_)
TrimStartSeq(cs) ==
    IF cs # <<>> /\ cs[1] = " " THEN TrimStartSeq(Tail(cs)) ELSE cs

RECURSIVE TrimEndSeq(_)
TrimEndSeq(cs) ==
    IF cs # <<>> /\ cs[Len(cs)] = " "
    THEN TrimEndSeq(SubSeq(cs, 1, Len(cs) - 1))
    ELSE cs

\* String.prototype.trim, on characters
TrimSeq(cs) == TrimEndSeq(TrimStartSeq(cs))

\* String.prototype.includes, on characters
IncludesSeq(cs, sub) ==
    \E i \in 1..(Len(cs) - Len(sub) + 1) : SubSeq(cs, i, i + Len(sub) - 1) = sub

\* cs < ds as strings: the first differing code unit decides, a proper prefix is less
RECURSIVE LessSeq(_, _)
LessSeq(cs, ds) ==
    IF ds = <<>> THEN FALSE
    ELSE IF cs = <<>> THEN TRUE
    ELSE IF cs[1] = ds[1] THEN LessSeq(Tail(cs), Tail(ds))
    ELSE Code(cs[1]) < Code(ds[1])

RECURSIVE DecDigits(_)
DecDigits(i) ==
    IF i < 10 THEN <<DigitChars[i + 1]>>
    ELSE DecDigits(i \div 10) \o <<DigitChars[(i % 10) + 1]>>

\* Number.prototype.toString of h/100
NumToSeq(h) ==
    LET a  == IF h < 0 THEN -h ELSE h
        fp == a % 100
        fr == IF fp = 0 THEN <<>>
              ELSE IF fp % 10 = 0 THEN <<".", DigitChars[(fp \div 10) + 1]>>
              ELSE <<".", DigitChars[(fp \div 10) + 1], DigitChars[(fp % 10) + 1]>>
    IN  (IF h < 0 THEN <<"-">> ELSE <<>>) \o DecDigits(a \div 100) \o fr

\* String(v)
String(v) ==
    CASE v.t = "string"    -> v
      [] v.t = "isodate"   -> v
      [] v.t = "undefined" -> Str(<<"u","n","d","e","f","i","n","e","d">>)
      [] v.t = "null"      -> Str(<<"n","u","l","l">>)
      [] v.t = "boolean"   -> IF v.n = 1 THEN Str(<<"t","r","u","e">>)
                              ELSE Str(<<"f","a","l","s","e">>)
      [] v.t = "NaN"       -> Str(<<"N","a","N">>)
      [] v.t = "number"    -> Str(NumToSeq(v.n))

\* the characters of a string; those of an ISO string are not modelled, and no
\* request of the sets below makes a handler parse or lower-case one
Chars(v) == CASE v.t = "string" -> v.s

\* s.trim()
trim(v) == IF v.t = "isodate" THEN v ELSE Str(TrimSeq(v.s))

\* s.toLowerCase()
toLowerCase(v) == Str(LowerSeq(Chars(v)))

\* the index after the digits of cs that start at index i
RECURSIVE ScanDigits(_, _)
ScanDigits(cs, i) ==
    IF i <= Len(cs) /\ IsDigit(cs[i]) THEN ScanDigits(cs, i + 1) ELSE i

\* the value of the digits cs[i..j-1]
RECURSIVE DigitsValue(_, _, _)
DigitsValue(cs, i, j) ==
    IF j <= i THEN 0
    ELSE DigitsValue(cs, i, j - 1) * 10 + DigitVal(cs[j - 1])

RECURSIVE Pow10(_)
Pow10(e) == IF e <= 0 THEN 1 ELSE 10 * Pow10(e - 1)

\* the length of a leading sign
SignLen(cs) == IF cs # <<>> /\ cs[1] \in {"+", "-"} THEN 1 ELSE 0

\* m, negated if cs starts with a minus sign
Signed(cs, m) == IF cs # <<>> /\ cs[1] = "-" THEN -m ELSE m

\* the hundredths of the fraction digits cs[i..j-1]
FractionValue(cs, i, j) ==
    (IF j > i THEN DigitVal(cs[i]) * 10 ELSE 0)
      + (IF j > i + 1 THEN DigitVal(cs[i + 1]) ELSE 0)

\* an exponent part e [+-] digits starts at index m; es is the length of its sign
IsExponent(cs, m) == m <= Len(cs) /\ cs[m] \in {"e", "E"}

ExponentSignLen(cs, m) ==
    IF IsExponent(cs, m) /\ m + 1 <= Len(cs) /\ cs[m + 1] \in {"+", "-"} THEN 1 ELSE 0

\* mant * 10^ev, or mant / 10^ev for a negative exponent
Scaled(mant, ev, negative) ==
    IF negative THEN mant \div Pow10(ev) ELSE mant * Pow10(ev)

\* the scan, given the mantissa's end m and value mant, and the exponent's
\* digits cs[e0..e1-1]
ScanResult(cs, ok, m, mant, e0, e1) ==
    IF IsExponent(cs, m) /\ e1 > e0
    THEN [ok |-> ok, end |-> e1,
          h |-> Signed(cs, Scaled(mant, DigitsValue(cs, e0, e1), cs[e0 - 1] = "-"))]
    ELSE [ok |-> ok, end |-> m, h |-> Signed(cs, mant)]

ScanExponent(cs, ok, m, mant, e0) ==
    ScanResult(cs, ok, m, mant, e0, IF IsExponent(cs, m) THEN ScanDigits(cs, e0) ELSE e0)

\* the scan, given the integer digits cs[i0..i1-1] and the fraction digits
\* cs[i1+1..i2-1] (i2 = i1 when there is no point)
ScanMantissa(cs, i0, i1, i2) ==
    ScanExponent(cs,
                 i1 > i0 \/ i2 > i1 + 1,
                 i2,
                 DigitsValue(cs, i0, i1) * 100 + FractionValue(cs, i1 + 1, i2),
                 i2 + 1 + ExponentSignLen(cs, i2))

ScanFraction(cs, i0, i1) ==
    ScanMantissa(cs, i0, i1,
                 IF i1 <= Len(cs) /\ cs[i1] = "." THEN ScanDigits(cs, i1 + 1) ELSE i1)

ScanInteger(cs, i0) == ScanFraction(cs, i0, ScanDigits(cs, i0))

\* The longest prefix of cs that is a StrDecimalLiteral:
\* [+-] digits [. digits] [e [+-] digits], with a digit before or after the point.
\* ok: there is one; end: the index after it; h: its value in hundredths.
ScanDecimal(cs) == ScanInteger(cs, SignLen(cs) + 1)

\* the number a whole string denotes: 0 for the empty string, NaN for anything
\* but a decimal literal
NumberOfScan(cs, d) ==
    IF cs = <<>> THEN Whole(0)
    ELSE IF d.ok /\ d.end = Len(cs) + 1 THEN Num(d.h)
    ELSE NaN

NumberOfSeq(cs) == NumberOfScan(cs, ScanDecimal(cs))

\* Number(v): ToNumber
Number(v) ==
    CASE v.t = "number"    -> v
      [] v.t = "NaN"       -> NaN
      [] v.t = "undefined" -> NaN
      [] v.t = "null"      -> Whole(0)
      [] v.t = "boolean"   -> Whole(v.n)
      [] v.t = "isodate"   -> NaN
      [] v.t = "string"    -> NumberOfSeq(TrimSeq(v.s))

\* isNaN(v)
isNaN(v) == Number(v).t = "NaN"

\* Number.isInteger(v)
NumberIsInteger(v) == v.t = "number" /\ v.n % 100 = 0

FloatOfScan(d) == IF d.ok THEN Num(d.h) ELSE NaN

\* parseFloat(v): the longest decimal prefix of String(v) after leading blanks
parseFloat(v) == FloatOfScan(ScanDecimal(TrimStartSeq(Chars(String(v)))))

\* the integer of the digits cs[i0..i1-1], signed as cs is; NaN when there are none
IntOfDigits(cs, i0, i1) ==
    IF i1 = i0 THEN NaN ELSE Whole(Signed(cs, DigitsValue(cs, i0, i1)))

IntOfSeqAt(cs, i0) == IntOfDigits(cs, i0, ScanDigits(cs, i0))

IntOfSeq(cs) == IntOfSeqAt(cs, SignLen(cs) + 1)

\* parseInt(v, 10): sign and leading digits of String(v) after leading blanks
parseInt(v) == IntOfSeq(TrimStartSeq(Chars(String(v))))

\* !v is false
Truthy(v) ==
    CASE v.t \in {"undefined", "null", "NaN"} -> FALSE
      [] v.t = "boolean" -> v.n = 1
      [] v.t = "number"  -> v.n # 0
      [] v.t = "string"  -> v.s # <<>>
      [] v.t = "isodate" -> TRUE

\* a === b
StrictEq(a, b) == a.t # "NaN" /\ a = b

\* a < b: two strings compare by code units, anything else as numbers
Less(a, b) ==
    IF IsString(a) /\ IsString(b)
    THEN CASE a.t = "isodate" /\ b.t = "isodate" -> a.n < b.n
           [] a.t = "string" /\ b.t = "string"   -> LessSeq(a.s, b.s)
    ELSE LET x == Number(a)
             y == Number(b)
         IN  x.t = "number" /\ y.t = "number" /\ x.n < y.n

\* a + b on two numbers
Plus(a, b) == IF a.t = "number" /\ b.t = "number" THEN Num(a.n + b.n) ELSE NaN

\* a - b on two numbers
Minus(a, b) == IF a.t = "number" /\ b.t = "number" THEN Num(a.n - b.n) ELSE NaN

(***************************************************************************)
(* The catalog                                                             *)
(***************************************************************************)
VARIABLES
    products,    \* the catalog array
    currentId,   \* the id the next create is given
    now,         \* the last reading of the clock a handler took
    assigned,    \* history: every id the store has assigned
    ops,         \* the requests handled so far
    req,         \* the last request
    res,         \* the response to it
    pre,         \* history: the catalog, id counter and assigned ids the last request found
    clients,     \* the requests submitted at once, each with its response once handled
    api          \* the simple product API: its products array, its last request and
                 \* response, and as history the ids that have existed

vars == <<products, currentId, now, assigned, ops, req, res, pre, clients, api>>

\* the mutating requests handled in one run
MaxOps == 2

\* the mutating requests handled before the query of one run
MaxQueryOps == 1

Product(id, name, category, price, stock, description, createdAt, updatedAt) ==
    [id |-> id, name |-> name, category |-> category, price |-> price,
     stock |-> stock, description |-> description, createdAt |-> createdAt,
     updatedAt |-> updatedAt]

\* the seed catalog; its records have no updatedAt key, and their createdAt
\* strings are the instants 1 < 2 < 3 < 4
SeedProducts ==
    << Product(Whole(1), Str(<<"L","a","p","t","o","p">>),
               Str(<<"E","l","e","c","t","r","o","n","i","c","s">>),
               Num(99999), Whole(15),
               Str(<<"H","i","g","h","-","p","e","r","f","o","r","m","a","n","c","e",
                     " ","l","a","p","t","o","p"," ","w","i","t","h"," ","1","6","G","B",
                     " ","R","A","M">>),
               ISO(1), Undefined),
       Product(Whole(2), Str(<<"S","m","a","r","t","p","h","o","n","e">>),
               Str(<<"E","l","e","c","t","r","o","n","i","c","s">>),
               Num(69999), Whole(25),
               Str(<<"L","a","t","e","s","t"," ","s","m","a","r","t","p","h","o","n","e",
                     " ","w","i","t","h"," ","1","2","8","G","B"," ","s","t","o","r","a",
                     "g","e">>),
               ISO(2), Undefined),
       Product(Whole(3), Str(<<"C","o","f","f","e","e"," ","M","a","k","e","r">>),
               Str(<<"H","o","m","e"," ","A","p","p","l","i","a","n","c","e","s">>),
               Num(8999), Whole(40),
               Str(<<"P","r","o","g","r","a","m","m","a","b","l","e"," ","c","o","f","f",
                     "e","e"," ","m","a","k","e","r"," ","w","i","t","h"," ","t","h","e",
                     "r","m","a","l"," ","c","a","r","a","f","e">>),
               ISO(3), Undefined),
       Product(Whole(4), Str(<<"D","e","s","k"," ","C","h","a","i","r">>),
               Str(<<"F","u","r","n","i","t","u","r","e">>),
               Num(24999), Whole(8),
               Str(<<"E","r","g","o","n","o","m","i","c"," ","o","f","f","i","c","e"," ",
                     "c","h","a","i","r"," ","w","i","t","h"," ","l","u","m","b","a","r",
                     " ","s","u","p","p","o","r","t">>),
               ISO(4), Undefined) >>

\* no product: the product of a response that carries none
NoProduct ==
    Product(Undefined, Undefined, Undefined, Undefined, Undefined, Undefined,
            Undefined, Undefined)

RECURSIVE MaxOf(_)
MaxOf(S) ==
    LET x == CHOOSE y \in S : TRUE
    IN  IF S = {x} THEN x
        ELSE LET m == MaxOf(S \ {x}) IN IF x > m THEN x ELSE m

\* let currentId = products.length > 0 ? Math.max(...ids) + 1 : 1
InitialId(ps) ==
    IF Len(ps) > 0 THEN MaxOf({ps[i].id.n \div 100 : i \in 1..Len(ps)}) + 1 ELSE 1

\* a request body: a key the body does not have is undefined
Body(name, category, price, stock, description, id, createdAt) ==
    [name |-> name, category |-> category, price |-> price, stock |-> stock,
     description |-> description, id |-> id, createdAt |-> createdAt]

EmptyBody ==
    Body(Undefined, Undefined, Undefined, Undefined, Undefined, Undefined, Undefined)

\* the body of a stock request
StockBody(operation, quantity) == [operation |-> operation, quantity |-> quantity]

NoStockBody == StockBody(Undefined, Undefined)

\* the query string of GET /products: a parameter it does not have is undefined
Query(category, minPrice, maxPrice, inStock, search, sortBy, sortOrder, page, limit) ==
    [category |-> category, minPrice |-> minPrice, maxPrice |-> maxPrice,
     inStock |-> inStock, search |-> search, sortBy |-> sortBy,
     sortOrder |-> sortOrder, page |-> page, limit |-> limit]

NoQuery ==
    Query(Undefined, Undefined, Undefined, Undefined, Undefined, Undefined, Undefined,
          Undefined, Undefined)

Request(op, id, body, stock, query) ==
    [op |-> op, id |-> id, body |-> body, stock |-> stock, query |-> query]

\* the metadata of a page
Metadata(totalProducts, totalPages, currentPage, pageSize, hasNextPage, hasPrevPage) ==
    [totalProducts |-> totalProducts, totalPages |-> totalPages,
     currentPage |-> currentPage, pageSize |-> pageSize,
     hasNextPage |-> hasNextPage, hasPrevPage |-> hasPrevPage]

NoMetadata == Metadata(0, 0, 0, 0, FALSE, FALSE)

\* the filters a page echoes
Filters(category, minPrice, maxPrice, inStock, search, sortBy, sortOrder) ==
    [category |-> category, minPrice |-> minPrice, maxPrice |-> maxPrice,
     inStock |-> inStock, search |-> search, sortBy |-> sortBy, sortOrder |-> sortOrder]

NoFilters == Filters(Undefined, Undefined, Undefined, Undefined, Undefined, "", "")

\* a response: the status, the error of a failure (with the details of a failed
\* validation, and the two quantities of an insufficient stock), the message and
\* the product of a success; the products, metadata and filters of a page; the
\* categories of GET /categories
Response(status, error, message, product) ==
    [status |-> status, error |-> error, message |-> message, product |-> product,
     details |-> <<>>, available |-> Undefined, requested |-> Undefined,
     products |-> <<>>, metadata |-> NoMetadata, filters |-> NoFilters,
     categories |-> <<>>]

NoResponse == Response(0, "", "", NoProduct)

\* what a handler leaves: the catalog, the id counter, the response, and
\* whether it read the clock
Outcome(ps, cid, r, read) == [products |-> ps, currentId |-> cid, res |-> r, read |-> read]

\* a handler that threw: the error-handling middleware answers
Thrown == Response(500, "Something went wrong!", "", NoProduct)

ValidationFailed(errors) ==
    [Response(400, "Validation failed", "", NoProduct) EXCEPT !.details = errors]

InvalidId == Response(400, "Invalid product id", "", NoProduct)

NotFound == Response(404, "Product not found", "", NoProduct)

(***************************************************************************)
(* The validation middlewares                                              *)
(***************************************************************************)
\* !v || v.trim() === '': "throw" when v is truthy and has no trim method
Blank(v) ==
    IF ~Truthy(v) THEN "yes"
    ELSE IF ~IsString(v) THEN "throw"
    ELSE IF trim(v) = Str(<<>>) THEN "yes"
    ELSE "no"

PriceErrors(price, required) ==
    LET bad == isNaN(price) \/ Less(Number(price), Whole(0))
    IN  IF required /\ (price = Undefined \/ price = Null)
        THEN <<"Price is required">>
        ELSE IF price = Undefined THEN <<>>
        ELSE IF bad THEN <<"Price must be a positive number">>
        ELSE <<>>

StockErrors(stock, required) ==
    LET bad == isNaN(stock) \/ ~NumberIsInteger(Number(stock))
                 \/ Less(Number(stock), Whole(0))
    IN  IF required /\ (stock = Undefined \/ stock = Null)
        THEN <<"Stock quantity is required">>
        ELSE IF stock = Undefined THEN <<>>
        ELSE IF bad THEN <<"Stock must be a non-negative integer">>
        ELSE <<>>

\* validateProduct: the errors, or threw
validateProduct(body) ==
    LET n == Blank(body.name)
        c == Blank(body.category)
    IN  IF n = "throw" \/ c = "throw"
        THEN [threw |-> TRUE, errors |-> <<>>]
        ELSE [threw |-> FALSE,
              errors |->
                 (IF n = "yes" THEN <<"Product name is required">> ELSE <<>>)
                 \o (IF c = "yes" THEN <<"Category is required">> ELSE <<>>)
                 \o PriceErrors(body.price, TRUE)
                 \o StockErrors(body.stock, TRUE)]

\* validateProductUpdate: the errors
validateProductUpdate(body) ==
    PriceErrors(body.price, FALSE) \o StockErrors(body.stock, FALSE)

(***************************************************************************)
(* The handlers, as functions of the catalog ps, the id counter cid, the    *)
(* request and the clock reading t the handler takes if it stamps           *)
(***************************************************************************)
\* products.findIndex(p => p.id === id), counted from 1; 0 when there is none
findIndex(ps, id) ==
    IF \E i \in 1..Len(ps) : StrictEq(ps[i].id, id)
    THEN CHOOSE i \in 1..Len(ps) :
            /\ StrictEq(ps[i].id, id)
            /\ \A j \in 1..(i - 1) : ~StrictEq(ps[j].id, id)
    ELSE 0

\* products.some(p => p.name.toLowerCase() === String(name).toLowerCase())
nameExists(ps, name) ==
    \E i \in 1..Len(ps) : toLowerCase(ps[i].name) = toLowerCase(String(name))

\* products.some(p => p.name.toLowerCase() === String(name).toLowerCase() && p.id !== id)
nameExistsOther(ps, name, id) ==
    \E i \in 1..Len(ps) :
        /\ toLowerCase(ps[i].name) = toLowerCase(String(name))
        /\ ~StrictEq(ps[i].id, id)

\* the record POST /products builds
newProduct(cid, body, t) ==
    Product(Whole(cid),
            trim(String(body.name)),
            trim(String(body.category)),
            parseFloat(body.price),
            parseInt(body.stock),
            String(IF body.description = Undefined THEN Str(<<>>) ELSE body.description),
            ISO(t),
            Null)

\* POST /products with generateId() called ahead of the name check: a refused
\* create that uses up an id
postProducts_IdFirst(ps, cid, body, t) ==
    LET v == validateProduct(body)
    IN  IF v.threw THEN Outcome(ps, cid, Thrown, FALSE)
        ELSE IF v.errors # <<>> THEN Outcome(ps, cid, ValidationFailed(v.errors), FALSE)
        ELSE IF nameExists(ps, body.name)
        THEN Outcome(ps, cid + 1,
                     Response(409, "Product with this name already exists", "", NoProduct),
                     FALSE)
        ELSE LET new == newProduct(cid, body, t)
             IN  Outcome(Append(ps, new), cid + 1,
                         Response(201, "", "Product created successfully", new), TRUE)

\* POST /products
postProducts(ps, cid, body, t) ==
    LET v == validateProduct(body)
    IN  IF v.threw THEN Outcome(ps, cid, Thrown, FALSE)
        ELSE IF v.errors # <<>> THEN Outcome(ps, cid, ValidationFailed(v.errors), FALSE)
        ELSE IF nameExists(ps, body.name)
        THEN Outcome(ps, cid,
                     Response(409, "Product with this name already exists", "", NoProduct),
                     FALSE)
        ELSE LET new == newProduct(cid, body, t)
             IN  Outcome(Append(ps, new), cid + 1,
                         Response(201, "", "Product created successfully", new), TRUE)

\* the record PUT /products/:id stores over old
updatedProduct(old, body, t) ==
    [old EXCEPT !.name = trim(String(body.name)),
                !.category = trim(String(body.category)),
                !.price = parseFloat(body.price),
                !.stock = parseInt(body.stock),
                !.description = IF Truthy(body.description) THEN body.description
                                ELSE old.description,
                !.updatedAt = ISO(t)]

\* PUT /products/:id, behind validateProduct
putProduct(ps, cid, param, body, t) ==
    LET v  == validateProduct(body)
        id == parseInt(param)
        i  == findIndex(ps, id)
    IN  IF v.threw THEN Outcome(ps, cid, Thrown, FALSE)
        ELSE IF v.errors # <<>> THEN Outcome(ps, cid, ValidationFailed(v.errors), FALSE)
        ELSE IF id = NaN THEN Outcome(ps, cid, InvalidId, FALSE)
        ELSE IF i = 0 THEN Outcome(ps, cid, NotFound, FALSE)
        ELSE IF nameExistsOther(ps, body.name, id)
        THEN Outcome(ps, cid,
                     Response(409, "Product name already exists for another product", "",
                              NoProduct),
                     FALSE)
        ELSE LET new == updatedProduct(ps[i], body, t)
             IN  Outcome([ps EXCEPT ![i] = new], cid,
                         Response(200, "", "Product updated successfully", new), TRUE)

\* processedUpdates: the body with its numeric fields parsed and its name and
\* category made trimmed strings, each only if the body has it
processedUpdates(body) ==
    [body EXCEPT
        !.price = IF body.price # Undefined THEN parseFloat(body.price) ELSE Undefined,
        !.stock = IF body.stock # Undefined THEN parseInt(body.stock) ELSE Undefined,
        !.name = IF body.name # Undefined THEN trim(String(body.name)) ELSE Undefined,
        !.category = IF body.category # Undefined THEN trim(String(body.category))
                     ELSE Undefined]

\* a merge that keeps old's description only when updates has one: the
\* description of a record is lost to an update that does not name it
patchedProduct_DropsDescription(old, updates, t) ==
    LET pick(new, was) == IF new # Undefined THEN new ELSE was
    IN  Product(pick(updates.id, old.id),
                pick(updates.name, old.name),
                pick(updates.category, old.category),
                pick(updates.price, old.price),
                pick(updates.stock, old.stock),
                pick(updates.description, Str(<<>>)),
                pick(updates.createdAt, old.createdAt),
                ISO(t))

\* { ...old, ...updates, updatedAt: now }: every key of updates replaces old's
patchedProduct(old, updates, t) ==
    LET pick(new, was) == IF new # Undefined THEN new ELSE was
    IN  Product(pick(updates.id, old.id),
                pick(updates.name, old.name),
                pick(updates.category, old.category),
                pick(updates.price, old.price),
                pick(updates.stock, old.stock),
                pick(updates.description, old.description),
                pick(updates.createdAt, old.createdAt),
                ISO(t))

\* PATCH /products/:id, behind validateProductUpdate
patchProduct(ps, cid, param, body, t) ==
    LET errors == validateProductUpdate(body)
        id     == parseInt(param)
        i      == findIndex(ps, id)
    IN  IF errors # <<>> THEN Outcome(ps, cid, ValidationFailed(errors), FALSE)
        ELSE IF id = NaN THEN Outcome(ps, cid, InvalidId, FALSE)
        ELSE IF i = 0 THEN Outcome(ps, cid, NotFound, FALSE)
        ELSE IF Truthy(body.name) /\ nameExistsOther(ps, body.name, id)
        THEN Outcome(ps, cid,
                     Response(409, "Product name already exists for another product", "",
                              NoProduct),
                     FALSE)
        ELSE LET new == patchedProduct(ps[i], processedUpdates(body), t)
             IN  Outcome([ps EXCEPT ![i] = new], cid,
                         Response(200, "", "Product partially updated successfully", new),
                         TRUE)

\* products.splice(i, 1)
splice(ps, i) == SubSeq(ps, 1, i - 1) \o SubSeq(ps, i + 1, Len(ps))

\* DELETE /products/:id
deleteProduct(ps, cid, param) ==
    LET id == parseInt(param)
        i  == findIndex(ps, id)
    IN  IF id = NaN THEN Outcome(ps, cid, InvalidId, FALSE)
        ELSE IF i = 0 THEN Outcome(ps, cid, NotFound, FALSE)
        ELSE Outcome(splice(ps, i), cid,
                     Response(200, "", "Product deleted successfully", ps[i]), FALSE)

InsufficientStock(available, requested) ==
    [Response(400, "Insufficient stock", "", NoProduct)
        EXCEPT !.available = available, !.requested = requested]

\* the add branch: product.stock += qty, stamped
addStock(ps, cid, i, qty, t) ==
    LET new == [ps[i] EXCEPT !.stock = Plus(ps[i].stock, qty), !.updatedAt = ISO(t)]
    IN  Outcome([ps EXCEPT ![i] = new], cid,
                [Response(200, "", "Added units to stock", new) EXCEPT !.requested = qty],
                TRUE)

\* the subtract branch without its check of the stock
subtractStock_Unchecked(ps, cid, i, qty, t) ==
    LET new == [ps[i] EXCEPT !.stock = Minus(ps[i].stock, qty), !.updatedAt = ISO(t)]
    IN  Outcome([ps EXCEPT ![i] = new], cid,
                [Response(200, "", "Subtracted units from stock", new)
                    EXCEPT !.requested = qty],
                TRUE)

\* the subtract branch refusing when product.stock <= qty
subtractStock_RefusesAll(ps, cid, i, qty, t) ==
    IF Less(ps[i].stock, qty) \/ StrictEq(ps[i].stock, qty)
    THEN Outcome(ps, cid, InsufficientStock(ps[i].stock, qty), FALSE)
    ELSE LET new == [ps[i] EXCEPT !.stock = Minus(ps[i].stock, qty),
                                  !.updatedAt = ISO(t)]
         IN  Outcome([ps EXCEPT ![i] = new], cid,
                     [Response(200, "", "Subtracted units from stock", new)
                         EXCEPT !.requested = qty],
                     TRUE)

\* the subtract branch: refused when product.stock < qty, else product.stock -= qty, stamped
subtractStock(ps, cid, i, qty, t) ==
    IF Less(ps[i].stock, qty)
    THEN Outcome(ps, cid, InsufficientStock(ps[i].stock, qty), FALSE)
    ELSE LET new == [ps[i] EXCEPT !.stock = Minus(ps[i].stock, qty),
                                  !.updatedAt = ISO(t)]
         IN  Outcome([ps EXCEPT ![i] = new], cid,
                     [Response(200, "", "Subtracted units from stock", new)
                         EXCEPT !.requested = qty],
                     TRUE)

\* POST /products/:id/stock
postStock(ps, cid, param, body, t) ==
    LET id     == parseInt(param)
        qtyNum == parseInt(body.quantity)
        i      == findIndex(ps, id)
    IN  IF id = NaN THEN Outcome(ps, cid, InvalidId, FALSE)
        ELSE IF ~Truthy(body.operation) \/ body.quantity = Undefined
                  \/ body.quantity = Null
        THEN Outcome(ps, cid,
                     Response(400, "Operation and quantity are required", "", NoProduct),
                     FALSE)
        ELSE IF qtyNum = NaN \/ ~Less(Whole(0), qtyNum)
        THEN Outcome(ps, cid,
                     Response(400, "Quantity must be a positive integer", "", NoProduct),
                     FALSE)
        ELSE IF i = 0 THEN Outcome(ps, cid, NotFound, FALSE)
        ELSE IF ~IsString(body.operation) THEN Outcome(ps, cid, Thrown, FALSE)
        ELSE IF toLowerCase(body.operation) = Str(<<"a","d","d">>)
        THEN addStock(ps, cid, i, qtyNum, t)
        ELSE IF toLowerCase(body.operation) = Str(<<"s","u","b","t","r","a","c","t">>)
        THEN subtractStock(ps, cid, i, qtyNum, t)
        ELSE Outcome(ps, cid,
                     Response(400, "Invalid operation", "", NoProduct), FALSE)

(***************************************************************************)
(* The queries                                                             *)
(***************************************************************************)
\* a >= b on numbers
GreaterEq(a, b) == a.t = "number" /\ b.t = "number" /\ a.n >= b.n

\* if (category) filter on category, ignoring case
filterCategory(ps, category) ==
    IF Truthy(category)
    THEN SelectSeq(ps, LAMBDA p : toLowerCase(p.category) = toLowerCase(category))
    ELSE ps

\* if (minPrice) and it parses, filter on price >= min
filterMinPrice(ps, minPrice) ==
    IF Truthy(minPrice) /\ parseFloat(minPrice) # NaN
    THEN SelectSeq(ps, LAMBDA p : GreaterEq(Number(p.price), parseFloat(minPrice)))
    ELSE ps

\* if (maxPrice) and it parses, filter on price <= max
filterMaxPrice(ps, maxPrice) ==
    IF Truthy(maxPrice) /\ parseFloat(maxPrice) # NaN
    THEN SelectSeq(ps, LAMBDA p : GreaterEq(parseFloat(maxPrice), Number(p.price)))
    ELSE ps

\* inStock === 'true': stock > 0; inStock === 'false': stock === 0
filterInStock(ps, inStock) ==
    IF inStock = Str(<<"t","r","u","e">>)
    THEN SelectSeq(ps, LAMBDA p : Less(Whole(0), p.stock))
    ELSE IF inStock = Str(<<"f","a","l","s","e">>)
    THEN SelectSeq(ps, LAMBDA p : StrictEq(p.stock, Whole(0)))
    ELSE ps

\* the search filter calls description.toLowerCase() on a record whose name
\* does not match: a TypeError when that description is no string
searchThrows(ps, search) ==
    \E i \in 1..Len(ps) :
        /\ ~IncludesSeq(Chars(toLowerCase(ps[i].name)), Chars(toLowerCase(search)))
        /\ ~IsString(ps[i].description)

\* if (search) filter on the name or the description including it, ignoring case
filterSearch(ps, search) ==
    IF Truthy(search)
    THEN SelectSeq(ps, LAMBDA p :
            \/ IncludesSeq(Chars(toLowerCase(p.name)), Chars(toLowerCase(search)))
            \/ IncludesSeq(Chars(toLowerCase(p.description)), Chars(toLowerCase(search))))
    ELSE ps

\* the filters before the search, in the handler's order
filterFields(ps, q) ==
    filterInStock(
        filterMaxPrice(filterMinPrice(filterCategory(ps, q.category), q.minPrice),
                       q.maxPrice),
        q.inStock)

\* validSortFields.includes(sortBy) ? sortBy : 'id', sortBy being 'id' by default
sortFieldOf(sortBy) ==
    CASE sortBy = Str(<<"n","a","m","e">>) -> "name"
      [] sortBy = Str(<<"p","r","i","c","e">>) -> "price"
      [] sortBy = Str(<<"s","t","o","c","k">>) -> "stock"
      [] sortBy = Str(<<"c","r","e","a","t","e","d","A","t">>) -> "createdAt"
      [] OTHER -> "id"

\* sortOrder.toString().toLowerCase() === 'desc' ? -1 : 1, sortOrder being 'asc' by default
orderOf(sortOrder) ==
    IF sortOrder # Undefined /\ toLowerCase(String(sortOrder)) = Str(<<"d","e","s","c">>)
    THEN -1 ELSE 1

\* a[sortField]
field(p, sortField) ==
    CASE sortField = "name" -> p.name
      [] sortField = "price" -> p.price
      [] sortField = "stock" -> p.stock
      [] sortField = "createdAt" -> p.createdAt
      [] sortField = "id" -> p.id

\* the comparator's two values: names that are both strings are lower-cased
lowered(v, w, sortField) ==
    IF sortField = "name" /\ IsString(v) /\ IsString(w) THEN toLowerCase(v) ELSE v

compareValues(av, bv, order) ==
    IF Less(av, bv) THEN -order ELSE IF Less(bv, av) THEN order ELSE 0

\* the comparator of filteredProducts.sort
compare(a, b, sortField, order) ==
    compareValues(lowered(field(a, sortField), field(b, sortField), sortField),
                  lowered(field(b, sortField), field(a, sortField), sortField),
                  order)

Reverse(s) == [i \in 1..Len(s) |-> s[Len(s) + 1 - i]]

\* Array.prototype.sort as V8 runs it on an array shorter than its minimum run
\* length: it takes the longest run the array starts with, ascending or strictly
\* descending (then reversed), and inserts the other elements by binary search.
\* The last index of the run that starts the array, idx being the next to try:
RECURSIVE runEnd(_, _, _, _, _)
runEnd(arr, idx, descending, sortField, order) ==
    IF idx > Len(arr) THEN idx - 1
    ELSE IF descending /\ compare(arr[idx], arr[idx - 1], sortField, order) >= 0
    THEN idx - 1
    ELSE IF ~descending /\ compare(arr[idx], arr[idx - 1], sortField, order) < 0
    THEN idx - 1
    ELSE runEnd(arr, idx + 1, descending, sortField, order)

\* the array with the run arr[1..n] reversed
reverseRun(arr, n) == Reverse(SubSeq(arr, 1, n)) \o SubSeq(arr, n + 1, Len(arr))

\* the number of elements of arr[left+1..right] that stay before pivot
RECURSIVE insertionPoint(_, _, _, _, _, _)
insertionPoint(arr, pivot, left, right, sortField, order) ==
    IF left >= right THEN left
    ELSE IF compare(pivot, arr[left + ((right - left) \div 2) + 1], sortField, order) < 0
    THEN insertionPoint(arr, pivot, left, left + ((right - left) \div 2), sortField, order)
    ELSE insertionPoint(arr, pivot, left + ((right - left) \div 2) + 1, right,
                        sortField, order)

\* arr with arr[start] moved to stand after its first at elements
insertAt(arr, start, at) ==
    SubSeq(arr, 1, at) \o <<arr[start]>> \o SubSeq(arr, at + 1, start - 1)
      \o SubSeq(arr, start + 1, Len(arr))

\* arr[1..start-1] is sorted: insert arr[start], arr[start+1], ...
RECURSIVE binaryInsertionSort(_, _, _, _)
binaryInsertionSort(arr, start, sortField, order) ==
    IF start > Len(arr) THEN arr
    ELSE binaryInsertionSort(
            insertAt(arr, start,
                     insertionPoint(arr, arr[start], 0, start - 1, sortField, order)),
            start + 1, sortField, order)

sortRun(arr, descending, n, sortField, order) ==
    binaryInsertionSort(IF descending THEN reverseRun(arr, n) ELSE arr, n + 1,
                        sortField, order)

sortFrom(arr, descending, sortField, order) ==
    sortRun(arr, descending, runEnd(arr, 3, descending, sortField, order),
            sortField, order)

\* filteredProducts.sort(comparator)
sort(arr, sortField, order) ==
    IF Len(arr) < 2 THEN arr
    ELSE sortFrom(arr, compare(arr[2], arr[1], sortField, order) < 0, sortField, order)

\* Number.isInteger(Number(v)) ? parseInt(v, 10) : dflt
integerOr(v, dflt) == IF NumberIsInteger(Number(v)) THEN parseInt(v) ELSE Whole(dflt)

\* safePageNum and safeLimitNum: the page or limit of the query (dflt when it
\* has none), dflt again unless that is an integer above 0
safeNumber(v, dflt) ==
    IF Less(Whole(0), integerOr(IF v = Undefined THEN Whole(dflt) ELSE v, dflt))
    THEN integerOr(IF v = Undefined THEN Whole(dflt) ELSE v, dflt).n \div 100
    ELSE dflt

\* a slice that takes the element at endIndex too
slice_Inclusive(arr, startIndex, endIndex) ==
    SubSeq(arr, startIndex + 1, IF endIndex + 1 < Len(arr) THEN endIndex + 1 ELSE Len(arr))

\* filteredProducts.slice(startIndex, endIndex), the indices counted from 0
slice(arr, startIndex, endIndex) ==
    SubSeq(arr, startIndex + 1, IF endIndex < Len(arr) THEN endIndex ELSE Len(arr))

\* Math.ceil(n / d)
ceilDiv(n, d) == (n + d - 1) \div d

\* the metadata with hasNextPage: endIndex <= filteredProducts.length
metadataOf_NextAtEnd(total, pageNum, limitNum, startIndex) ==
    Metadata(total, ceilDiv(total, limitNum), pageNum, limitNum,
             startIndex + limitNum <= total, startIndex > 0)

\* the metadata of the page of size limitNum that starts at startIndex
metadataOf(total, pageNum, limitNum, startIndex) ==
    Metadata(total, ceilDiv(total, limitNum), pageNum, limitNum,
             startIndex + limitNum < total, startIndex > 0)

\* the filters echoed with a page
filtersOf(q) ==
    Filters(q.category,
            IF Truthy(q.minPrice) THEN parseFloat(q.minPrice) ELSE Null,
            IF Truthy(q.maxPrice) THEN parseFloat(q.maxPrice) ELSE Null,
            IF Truthy(q.inStock)
            THEN (IF q.inStock = Str(<<"t","r","u","e">>) THEN True ELSE False)
            ELSE Null,
            q.search,
            sortFieldOf(q.sortBy),
            IF orderOf(q.sortOrder) = 1 THEN "asc" ELSE "desc")

\* the page of the filtered and sorted products
pageOf(sorted, q, pageNum, limitNum) ==
    [Response(200, "", "", NoProduct) EXCEPT
        !.products = slice(sorted, (pageNum - 1) * limitNum,
                           (pageNum - 1) * limitNum + limitNum),
        !.metadata = metadataOf(Len(sorted), pageNum, limitNum, (pageNum - 1) * limitNum),
        !.filters = filtersOf(q)]

\* the filtered products, sorted
filteredSorted(ps, q) ==
    sort(filterSearch(filterFields(ps, q), q.search), sortFieldOf(q.sortBy),
         orderOf(q.sortOrder))

\* GET /products
getProducts(ps, q) ==
    IF Truthy(q.search) /\ searchThrows(filterFields(ps, q), q.search) THEN Thrown
    ELSE pageOf(filteredSorted(ps, q), q, safeNumber(q.page, 1), safeNumber(q.limit, 10))

\* GET /products/:id
getProduct(ps, param) ==
    IF parseInt(param) = NaN THEN InvalidId
    ELSE IF findIndex(ps, parseInt(param)) = 0 THEN NotFound
    ELSE Response(200, "", "", ps[findIndex(ps, parseInt(param))])

\* the strings of S in code-unit order: what sort() makes of them
RECURSIVE sortedStrings(_)
sortedStrings(S) ==
    IF S = {} THEN <<>>
    ELSE LET least == CHOOSE v \in S : \A w \in S : ~LessSeq(Chars(w), Chars(v))
         IN  <<least>> \o sortedStrings(S \ {least})

\* GET /categories
getCategories(ps) ==
    [Response(200, "", "", NoProduct) EXCEPT
        !.categories = sortedStrings({ps[i].category : i \in 1..Len(ps)})]

(***************************************************************************)
(* The requests of the model                                               *)
(***************************************************************************)
\* req.params.id: the id of a seed record, the id the first create is given,
\* and a path segment that is no number
PathIds == {Str(<<"2">>), Str(<<"5">>), Str(<<"a","b","c">>)}

\* a body that passes validateProduct; its stock is that of the seed Desk Chair
BaseBody ==
    Body(Str(<<"M","o","u","s","e">>), Str(<<"T","o","y","s">>), Whole(10), Whole(8),
         Undefined, Undefined, Undefined)

\* names: a seed name in another case, a seed name behind a blank, the empty
\* string, a number
NameInputs ==
    {Str(<<"l","a","p","t","o","p">>), Str(<<" ","L","a","p","t","o","p">>),
     Str(<<>>), Whole(5)}

PriceInputs == {Str(<<"a","b","c">>), Whole(-1), Str(<<>>)}

\* 2.5, '', '1e2', true
StockInputs == {Num(250), Str(<<>>), Str(<<"1","e","2">>), True}

DescriptionInputs == {Str(<<>>), Whole(5)}

\* bodies of POST /products and PUT /products/:id: the base body, the empty
\* body, and the base body with one field replaced
FullBodies ==
    {BaseBody, EmptyBody}
      \cup {[BaseBody EXCEPT !.name = v] : v \in NameInputs}
      \cup {[BaseBody EXCEPT !.price = v] : v \in PriceInputs}
      \cup {[BaseBody EXCEPT !.stock = v] : v \in StockInputs}
      \cup {[BaseBody EXCEPT !.description = v] : v \in DescriptionInputs}

\* bodies of PATCH /products/:id: the empty body and bodies of one key
PatchBodies ==
    {EmptyBody}
      \cup {[EmptyBody EXCEPT !.name = v] : v \in NameInputs}
      \cup {[EmptyBody EXCEPT !.category = v] : v \in {Str(<<>>)}}
      \cup {[EmptyBody EXCEPT !.price = v] : v \in {Null, Str(<<"a","b","c">>)}}
      \cup {[EmptyBody EXCEPT !.stock = v] : v \in {Whole(5), Null, Num(250)}}
      \cup {[EmptyBody EXCEPT !.description = v] : v \in {Whole(5)}}
      \cup {[EmptyBody EXCEPT !.id = v] : v \in {Whole(5)}}
      \cup {[EmptyBody EXCEPT !.createdAt = v] : v \in {ISO(0)}}

Add == Str(<<"a","d","d">>)

Subtract == Str(<<"s","u","b","t","r","a","c","t">>)

\* bodies of POST /products/:id/stock
StockBodies ==
    {StockBody(Add, Whole(1)),
     StockBody(Add, Str(<<"3">>)),
     StockBody(Subtract, Whole(1)),
     StockBody(Str(<<"S","U","B","T","R","A","C","T">>), Whole(25)),
     StockBody(Subtract, Whole(100)),
     StockBody(Subtract, Num(250)),
     StockBody(Add, Whole(0)),
     StockBody(Add, Str(<<"a","b","c">>)),
     StockBody(Str(<<"s","e","t">>), Whole(1)),
     StockBody(Whole(5), Whole(1)),
     StockBody(Undefined, Whole(1))}

\* the filters of a query: none, and one filter at a time
FilterInputs ==
    {NoQuery,
     [NoQuery EXCEPT !.category = Str(<<"e","l","e","c","t","r","o","n","i","c","s">>)],
     [NoQuery EXCEPT !.minPrice = Str(<<"1","0","0">>)],
     [NoQuery EXCEPT !.minPrice = Str(<<"a","b","c">>)],
     [NoQuery EXCEPT !.maxPrice = Str(<<"7","0","0">>)],
     [NoQuery EXCEPT !.inStock = Str(<<"t","r","u","e">>)],
     [NoQuery EXCEPT !.inStock = Str(<<"f","a","l","s","e">>)],
     [NoQuery EXCEPT !.inStock = Str(<<"y","e","s">>)],
     [NoQuery EXCEPT !.search = Str(<<"L","A","P">>)],
     [NoQuery EXCEPT !.search = Str(<<"w","i","t","h">>)]}

SortByInputs ==
    {Undefined, Str(<<"i","d">>), Str(<<"n","a","m","e">>), Str(<<"p","r","i","c","e">>),
     Str(<<"s","t","o","c","k">>), Str(<<"c","r","e","a","t","e","d","A","t">>),
     Str(<<"b","o","g","u","s">>)}

SortOrderInputs == {Undefined, Str(<<"D","E","S","C">>)}

\* page and limit
PagingInputs ==
    {<<Undefined, Undefined>>,
     <<Str(<<"1">>), Str(<<"2">>)>>,
     <<Str(<<"2">>), Str(<<"2">>)>>,
     <<Str(<<"3">>), Str(<<"2">>)>>,
     <<Str(<<"2">>), Str(<<"3">>)>>,
     <<Str(<<"0">>), Str(<<"0">>)>>,
     <<Str(<<"9">>), Str(<<"a","b","c">>)>>}

Queries ==
    {[f EXCEPT !.sortBy = by, !.sortOrder = order, !.page = paging[1],
               !.limit = paging[2]] :
        f \in FilterInputs, by \in SortByInputs, order \in SortOrderInputs,
        paging \in PagingInputs}

NoRequest == Request("", Undefined, EmptyBody, NoStockBody, NoQuery)

(***************************************************************************)
(* The state machine: one step is one request handled to completion        *)
(***************************************************************************)
\* the products array of the simple product API at start
ApiSeed ==
    <<
       [id |-> Whole(1), name |-> Str(<<"S","S","D">>), price |-> Whole(100)],
       [id |-> Whole(2), name |-> Str(<<"R","A","M">>), price |-> Whole(200)],
       [id |-> Whole(3), name |-> Str(<<"C","P","U">>), price |-> Whole(300)],
       [id |-> Whole(4), name |-> Str(<<"G","P","U">>), price |-> Whole(400)],
       [id |-> Whole(5), name |-> Str(<<"M","o","t","h","e","r","b","o","a","r","d">>), price |-> Whole(500)],
       [id |-> Whole(6), name |-> Str(<<"P","o","w","e","r"," ","S","u","p","p","l","y">>), price |-> Whole(600)],
       [id |-> Whole(7), name |-> Str(<<"C","o","o","l","e","r">>), price |-> Whole(700)],
       [id |-> Whole(8), name |-> Str(<<"C","a","s","e">>), price |-> Whole(800)],
       [id |-> Whole(9), name |-> Str(<<"K","e","y","b","o","a","r","d">>), price |-> Whole(900)],
       [id |-> Whole(10), name |-> Str(<<"M","o","u","s","e">>), price |-> Whole(1000)]
    >>

\* the simple product API before any request; existed holds every id that a
\* product has had, seen the ids that had existed when the last request came
ApiStart ==
    [products |-> ApiSeed,
     existed |-> {ApiSeed[i].id : i \in 1..Len(ApiSeed)},
     seen |-> {ApiSeed[i].id : i \in 1..Len(ApiSeed)},
     req |-> [op |-> "", id |-> Undefined, name |-> Undefined, price |-> Undefined],
     res |-> [status |-> 0, message |-> ""]]

Init ==
    /\ products = SeedProducts
    /\ currentId = InitialId(SeedProducts)
    /\ now = 5
    /\ assigned = {SeedProducts[i].id : i \in 1..Len(SeedProducts)}
    /\ ops = 0
    /\ req = NoRequest
    /\ res = NoResponse
    /\ pre = [products |-> SeedProducts, currentId |-> InitialId(SeedProducts),
              assigned |-> {SeedProducts[i].id : i \in 1..Len(SeedProducts)}]
    /\ clients = <<>>
    /\ api = ApiStart

\* the clock at a request: it has not moved since the last reading, or it has
ClockReadings == {now, now + 1}

\* what handling the request r with outcome out, which read the clock as t
\* if at all, does to the catalog and to the history
Effect(r, out, t) ==
    /\ products' = out.products
    /\ currentId' = out.currentId
    /\ now' = IF out.read THEN t ELSE now
    /\ assigned' = IF r.op = "create" /\ out.res.status = 201
                   THEN assigned \cup {out.res.product.id}
                   ELSE assigned
    /\ ops' = ops + 1
    /\ req' = r
    /\ res' = out.res
    /\ pre' = [products |-> products, currentId |-> currentId, assigned |-> assigned]
    /\ UNCHANGED api

\* the request r is handled with outcome out
Handled(r, out, t) == Effect(r, out, t) /\ UNCHANGED clients

PostProducts ==
    \E body \in FullBodies, t \in ClockReadings :
        Handled(Request("create", Undefined, body, NoStockBody, NoQuery),
                postProducts(products, currentId, body, t), t)

PutProduct ==
    \E param \in PathIds, body \in FullBodies, t \in ClockReadings :
        Handled(Request("put", param, body, NoStockBody, NoQuery),
                putProduct(products, currentId, param, body, t), t)

PatchProduct ==
    \E param \in PathIds, body \in PatchBodies, t \in ClockReadings :
        Handled(Request("patch", param, body, NoStockBody, NoQuery),
                patchProduct(products, currentId, param, body, t), t)

DeleteProduct ==
    \E param \in PathIds :
        Handled(Request("delete", param, EmptyBody, NoStockBody, NoQuery),
                deleteProduct(products, currentId, param), now)

PostStock ==
    \E param \in PathIds, body \in StockBodies, t \in ClockReadings :
        Handled(Request("stock", param, EmptyBody, body, NoQuery),
                postStock(products, currentId, param, body, t), t)

GetProducts ==
    \E q \in Queries :
        Handled(Request("list", Undefined, EmptyBody, NoStockBody, q),
                Outcome(products, currentId, getProducts(products, q), FALSE), now)

GetProduct ==
    \E param \in PathIds :
        Handled(Request("get", param, EmptyBody, NoStockBody, NoQuery),
                Outcome(products, currentId, getProduct(products, param), FALSE), now)

GetCategories ==
    Handled(Request("categories", Undefined, EmptyBody, NoStockBody, NoQuery),
            Outcome(products, currentId, getCategories(products), FALSE), now)

\* the catalog under its mutating requests
Next ==
    \/ ops < MaxOps /\ PostProducts
    \/ ops < MaxOps /\ PutProduct
    \/ ops < MaxOps /\ PatchProduct
    \/ ops < MaxOps /\ DeleteProduct
    \/ ops < MaxOps /\ PostStock

Spec == Init /\ [][Next]_vars

\* the catalog under its queries: MaxQueryOps mutating requests, which reach
\* every catalog that many or fewer of them make (a refused request leaves the
\* catalog as it is), then one query
NextQuery ==
    \/ ops < MaxQueryOps /\ PostProducts
    \/ ops < MaxQueryOps /\ PutProduct
    \/ ops < MaxQueryOps /\ PatchProduct
    \/ ops < MaxQueryOps /\ DeleteProduct
    \/ ops < MaxQueryOps /\ PostStock
    \/ ops = MaxQueryOps /\ GetProducts
    \/ ops = MaxQueryOps /\ GetProduct
    \/ ops = MaxQueryOps /\ GetCategories

SpecQuery == Init /\ [][NextQuery]_vars

\* the requests in flight at once
MaxClients == 2

Clients == 1..MaxClients

\* the mutating requests of the model
MutatingRequests ==
    {Request("create", Undefined, body, NoStockBody, NoQuery) : body \in FullBodies}
      \cup {Request("put", param, body, NoStockBody, NoQuery) :
                param \in PathIds, body \in FullBodies}
      \cup {Request("patch", param, body, NoStockBody, NoQuery) :
                param \in PathIds, body \in PatchBodies}
      \cup {Request("delete", param, EmptyBody, NoStockBody, NoQuery) : param \in PathIds}
      \cup {Request("stock", param, EmptyBody, body, NoQuery) :
                param \in PathIds, body \in StockBodies}

\* the route of the request r, run on the catalog ps at the clock reading t
route(ps, cid, r, t) ==
    CASE r.op = "create" -> postProducts(ps, cid, r.body, t)
      [] r.op = "put" -> putProduct(ps, cid, r.id, r.body, t)
      [] r.op = "patch" -> patchProduct(ps, cid, r.id, r.body, t)
      [] r.op = "delete" -> deleteProduct(ps, cid, r.id)
      [] r.op = "stock" -> postStock(ps, cid, r.id, r.stock, t)

\* every client has submitted a request and none is handled yet
InitConcurrent ==
    /\ products = SeedProducts
    /\ currentId = InitialId(SeedProducts)
    /\ now = 5
    /\ assigned = {SeedProducts[i].id : i \in 1..Len(SeedProducts)}
    /\ ops = 0
    /\ req = NoRequest
    /\ res = NoResponse
    /\ pre = [products |-> SeedProducts, currentId |-> InitialId(SeedProducts),
              assigned |-> {SeedProducts[i].id : i \in 1..Len(SeedProducts)}]
    /\ clients \in [Clients -> [req : MutatingRequests, res : {NoResponse}]]
    /\ api = ApiStart

\* the event loop takes the request of a client that waits and runs its
\* handler to the response: the handlers are synchronous, with no await and
\* no callback between their checks and their write
Serve ==
    \E c \in Clients, t \in ClockReadings :
        /\ clients[c].res = NoResponse
        /\ Effect(clients[c].req, route(products, currentId, clients[c].req, t), t)
        /\ clients' = [clients EXCEPT
                          ![c].res = route(products, currentId, clients[c].req, t).res]

NextConcurrent == Serve

\* the catalog under requests submitted at once, handled in any order
SpecConcurrent == InitConcurrent /\ [][NextConcurrent]_vars

(***************************************************************************)
(* The simple product API: an array of products with id, name and price    *)
(***************************************************************************)
\* the requests the simple product API handles in a behaviour
MaxApiOps == 3

\* POST /api/products: the new product is given the highest id of the array plus one
apiPost(ps, body) ==
    IF ~Truthy(body.name) \/ StrictEq(body.price, Undefined)
    THEN [products |-> ps,
          res |-> [status |-> 400, message |-> "Name and price are required"]]
    ELSE LET maxId == IF Len(ps) > 0
                      THEN CHOOSE v \in {ps[i].id : i \in 1..Len(ps)} :
                               \A j \in 1..Len(ps) : ~Less(v, ps[j].id)
                      ELSE Whole(0)
             created == [id |-> Plus(maxId, Whole(1)), name |-> body.name,
                         price |-> body.price]
         IN  [products |-> Append(ps, created),
              res |-> [status |-> 201, message |-> "", product |-> created]]

\* PUT /api/products/:id: the name and the price of the product are replaced
apiPut(ps, param, body) ==
    IF isNaN(parseInt(param))
    THEN [products |-> ps, res |-> [status |-> 400, message |-> "Invalid product ID"]]
    ELSE IF \A i \in 1..Len(ps) : ~StrictEq(ps[i].id, parseInt(param))
    THEN [products |-> ps, res |-> [status |-> 404, message |-> "Product not found"]]
    ELSE IF ~Truthy(body.name) \/ StrictEq(body.price, Undefined)
    THEN [products |-> ps,
          res |-> [status |-> 400, message |-> "Name and price are required"]]
    ELSE LET k == CHOOSE i \in 1..Len(ps) :
                      /\ StrictEq(ps[i].id, parseInt(param))
                      /\ \A j \in 1..(i - 1) : ~StrictEq(ps[j].id, parseInt(param))
             product == [ps[k] EXCEPT !.name = body.name, !.price = body.price]
         IN  [products |-> [ps EXCEPT ![k] = product],
              res |-> [status |-> 200, message |-> "", product |-> product]]

\* DELETE /api/products/:id: the products with that id leave the array
apiDelete(ps, param) ==
    IF isNaN(parseInt(param))
    THEN [products |-> ps, res |-> [status |-> 400, message |-> "Invalid product ID"]]
    ELSE IF \A i \in 1..Len(ps) : ~StrictEq(ps[i].id, parseInt(param))
    THEN [products |-> ps, res |-> [status |-> 404, message |-> "Product not found"]]
    ELSE [products |-> SelectSeq(ps, LAMBDA p : ~StrictEq(p.id, parseInt(param))),
          res |-> [status |-> 200, message |-> "Product deleted successfully"]]

\* the requests made of the simple product API: the ids of the last product,
\* of the one a create adds, of a product in the middle and of none; bodies
\* with and without a name and a price, the price 0 among them
ApiRequests ==
    LET ids == {Str(<<"1","0">>), Str(<<"1","1">>), Str(<<"3">>), Str(<<"a","b","c">>)}
        names == {Undefined, Str(<<"P","e","n">>)}
        prices == {Undefined, Whole(0), Whole(50)}
    IN  [op : {"create"}, id : {Undefined}, name : names, price : prices]
        \cup [op : {"update"}, id : ids, name : names, price : prices]
        \cup [op : {"delete"}, id : ids, name : {Undefined}, price : {Undefined}]

\* the request r of the simple product API is handled with outcome out
ApiHandled(r, out) ==
    /\ api' = [products |-> out.products,
               existed |-> api.existed
                              \cup {out.products[i].id : i \in 1..Len(out.products)},
               seen |-> api.existed,
               req |-> r,
               res |-> out.res]
    /\ ops' = ops + 1
    /\ UNCHANGED <<products, currentId, now, assigned, req, res, pre, clients>>

ApiPost ==
    \E r \in ApiRequests : r.op = "create" /\ ApiHandled(r, apiPost(api.products, r))

ApiPut ==
    \E r \in ApiRequests : r.op = "update" /\ ApiHandled(r, apiPut(api.products, r.id, r))

ApiDelete ==
    \E r \in ApiRequests : r.op = "delete" /\ ApiHandled(r, apiDelete(api.products, r.id))

\* the simple product API under its mutating requests
NextApi ==
    \/ ops < MaxApiOps /\ ApiPost
    \/ ops < MaxApiOps /\ ApiPut
    \/ ops < MaxApiOps /\ ApiDelete

SpecApi == Init /\ [][NextApi]_vars

(***************************************************************************)
(* The claims of the specification, over the catalog and the last request  *)
(***************************************************************************)
\* the place in the catalog the last request found of the record it names, 0 when none
Target == findIndex(pre.products, parseInt(req.id))

\* the requests that change the catalog
Mutations == {"create", "put", "patch", "delete", "stock"}

\* a number that is an integer and not below 0
NonNegativeInteger(v) == NumberIsInteger(v) /\ v.n >= 0

\* the last request is a stock adjustment that reached its operation
IsAdjust(operation) ==
    /\ req.op = "stock"
    /\ IsString(req.stock.operation)
    /\ toLowerCase(req.stock.operation) = operation

\* the quantity of the last stock adjustment is a number, an integer above 0
WholeQuantity == NumberIsInteger(req.stock.quantity) /\ req.stock.quantity.n > 0

\* C1: no two records of the catalog have names that are equal ignoring case.
C1_NamesUnique ==
    \A i, j \in 1..Len(products) :
        i < j => toLowerCase(products[i].name) # toLowerCase(products[j].name)

C3_FreshId ==
    (req.op = "create" /\ res.status = 201) =>
        /\ \A i \in 1..Len(pre.products) : ~StrictEq(pre.products[i].id, res.product.id)
        /\ \A a \in pre.assigned : Less(a, res.product.id)

\* C4: the catalog holds at most one record for an id.
C4_OneRecordPerId ==
    \A i, j \in 1..Len(products) : i < j => ~StrictEq(products[i].id, products[j].id)

\* C5: a mutation answered with a failure (validation, invalid id, not found,
\* name conflict, insufficient stock) leaves the catalog and the id counter
\* as the request found them.
C5_FailFast ==
    (req.op \in Mutations /\ res.status \in {400, 404, 409}) =>
        /\ products = pre.products
        /\ currentId = pre.currentId

\* a create was refused for its name, after a create that was accepted
C5_Witness ==
    /\ req.op = "create" /\ res.status = 409
    /\ Len(products) = 5

\* C6: no request is answered by the error middleware, which is where a
\* handler that throws ends.
C6_NoThrow == res.status # 500

\* C7: a subtract of a whole quantity q from a record of stock s is refused
\* as insufficient, naming s as available and q as requested and changing
\* nothing, exactly when q > s; when q <= s it succeeds and leaves s - q, so
\* q = s leaves 0.
C7_SubtractBoundary ==
    (IsAdjust(Subtract) /\ WholeQuantity /\ Target # 0
        /\ pre.products[Target].stock.t = "number") =>
        IF req.stock.quantity.n > pre.products[Target].stock.n
        THEN /\ res = InsufficientStock(pre.products[Target].stock, req.stock.quantity)
             /\ products = pre.products
        ELSE /\ res.status = 200
             /\ products[Target].stock =
                    Num(pre.products[Target].stock.n - req.stock.quantity.n)
             /\ res.product = products[Target]

\* a subtract of all the stock of a record succeeded and left it 0
C7_Witness ==
    /\ IsAdjust(Subtract) /\ WholeQuantity /\ Target # 0
    /\ pre.products[Target].stock = req.stock.quantity
    /\ res.status = 200
    /\ products[Target].stock = Whole(0)

\* the pages 1..n of the query q over ps, one after the other
RECURSIVE PagesUpTo(_, _, _)
PagesUpTo(ps, q, n) ==
    IF n = 0 THEN <<>>
    ELSE PagesUpTo(ps, q, n - 1)
            \o getProducts(ps, [q EXCEPT !.page = Str(DecDigits(n))]).products

\* C8: the pages 1..totalPages of a query hold, in order and each record
\* once, the filtered and sorted records, totalProducts of them; totalPages
\* is the ceiling of totalProducts over the page size, each page but the
\* last is full, and the page after the last is empty.
C8_PagesPartition ==
    (req.op = "list" /\ res.status = 200) =>
        /\ res.metadata.totalProducts = Len(filteredSorted(products, req.query))
        /\ res.metadata.totalPages * res.metadata.pageSize >= res.metadata.totalProducts
        /\ (res.metadata.totalPages - 1) * res.metadata.pageSize
               < res.metadata.totalProducts \/ res.metadata.totalProducts = 0
        /\ PagesUpTo(products, req.query, res.metadata.totalPages)
               = filteredSorted(products, req.query)
        /\ \A n \in 1..(res.metadata.totalPages - 1) :
               Len(getProducts(products,
                               [req.query EXCEPT !.page = Str(DecDigits(n))]).products)
                   = res.metadata.pageSize
        /\ getProducts(products,
                       [req.query EXCEPT
                           !.page = Str(DecDigits(res.metadata.totalPages + 1))]).products
               = <<>>

\* the last of three pages, which is not full
C8_Witness ==
    /\ req.op = "list" /\ res.status = 200
    /\ res.metadata.totalPages = 3
    /\ res.metadata.currentPage = 3
    /\ res.metadata.pageSize = 2
    /\ Len(res.products) = 1

\* the records a list query sorts: the catalog through its filters
Unsorted == filterSearch(filterFields(products, req.query), req.query.search)

\* the place of the record p in the sequence s
PlaceIn(s, p) == CHOOSE k \in 1..Len(s) : s[k] = p

\* C9: the sort of a list query puts its records in the order of the sort key
\* (names compared ignoring case), keeps records of equal key in their
\* catalog order, gives back the same records, and sorting its result again
\* changes nothing.
C9_SortOrdered ==
    (req.op = "list" /\ res.status = 200) =>
        /\ \A i, j \in 1..Len(filteredSorted(products, req.query)) :
              i < j => compare(filteredSorted(products, req.query)[i],
                               filteredSorted(products, req.query)[j],
                               sortFieldOf(req.query.sortBy),
                               orderOf(req.query.sortOrder)) <= 0
        /\ Len(filteredSorted(products, req.query)) = Len(Unsorted)
        /\ \A i \in 1..Len(Unsorted) :
              \E k \in 1..Len(Unsorted) :
                  filteredSorted(products, req.query)[k] = Unsorted[i]
        /\ \A i, j \in 1..Len(Unsorted) :
              (i < j /\ compare(Unsorted[i], Unsorted[j], sortFieldOf(req.query.sortBy),
                                orderOf(req.query.sortOrder)) = 0)
                  => PlaceIn(filteredSorted(products, req.query), Unsorted[i])
                         < PlaceIn(filteredSorted(products, req.query), Unsorted[j])
        /\ sort(filteredSorted(products, req.query), sortFieldOf(req.query.sortBy),
                orderOf(req.query.sortOrder)) = filteredSorted(products, req.query)

\* the fields a PATCH body of the model may carry
PatchFields == {"id", "name", "category", "price", "stock", "description", "createdAt"}

\* a PATCH that succeeded changed the record it names in the fields its body
\* has and in no other but updatedAt, and changed no other record
PatchFrame ==
    /\ Target # 0
    /\ Len(products) = Len(pre.products)
    /\ \A i \in 1..Len(products) : i # Target => products[i] = pre.products[i]
    /\ \A k \in PatchFields :
          req.body[k] = Undefined => products[Target][k] = pre.products[Target][k]
    /\ currentId = pre.currentId

\* C10, as the specification states it: a PATCH that succeeds changes only
\* the fields supplied, and sets updatedAt to a timestamp strictly later than
\* the one the record had.
C10_StrictlyLater ==
    (req.op = "patch" /\ res.status = 200) =>
        /\ PatchFrame
        /\ products[Target].updatedAt.t = "isodate"
        /\ pre.products[Target].updatedAt.t = "isodate"
              => pre.products[Target].updatedAt.n < products[Target].updatedAt.n

\* C10, amended: a PATCH that succeeds changes only the fields supplied, and
\* sets updatedAt to the reading of the clock it takes, which is not earlier
\* than the timestamp the record had and is equal to it when the clock has
\* not advanced since.
C10_NotEarlier ==
    (req.op = "patch" /\ res.status = 200) =>
        /\ PatchFrame
        /\ products[Target].updatedAt = ISO(now)
        /\ pre.products[Target].updatedAt.t = "isodate"
              => pre.products[Target].updatedAt.n <= products[Target].updatedAt.n

\* a PATCH of the stock alone stamped a record with the timestamp it had
C10_Witness ==
    /\ req.op = "patch" /\ res.status = 200
    /\ Target # 0
    /\ req.body = [EmptyBody EXCEPT !.stock = Whole(5)]
    /\ products[Target].stock = Whole(5)
    /\ products[Target].updatedAt = pre.products[Target].updatedAt

\* C11: every record of the catalog has a name that is not empty and a
\* category that is not empty.
C11_NameAndCategoryNonEmpty ==
    \A i \in 1..Len(products) :
        /\ products[i].name # Str(<<>>)
        /\ products[i].category # Str(<<>>)

\* the record the last request wrote: the one it made, or the one it names
Written == IF req.op = "create" THEN Len(products) ELSE Target

\* C12: every record of the catalog has a price that is a number not below 0
\* and a stock that is an integer not below 0, and a create, full update or
\* partial update that succeeds stores the number that its validator read in
\* the price and in the stock of its body.
C12_StoredAsValidated ==
    /\ \A i \in 1..Len(products) :
          /\ products[i].price.t = "number" /\ products[i].price.n >= 0
          /\ NonNegativeInteger(products[i].stock)
    /\ (req.op \in {"create", "put", "patch"} /\ res.status \in {200, 201}) =>
          /\ req.body.price # Undefined
                => products[Written].price = Number(req.body.price)
          /\ req.body.stock # Undefined
                => products[Written].stock = Number(req.body.stock)

\* the record p passes every filter that the query q makes active
Satisfies(p, q) ==
    /\ Truthy(q.category) => toLowerCase(p.category) = toLowerCase(q.category)
    /\ (Truthy(q.minPrice) /\ parseFloat(q.minPrice) # NaN)
          => (p.price.t = "number" /\ p.price.n >= parseFloat(q.minPrice).n)
    /\ (Truthy(q.maxPrice) /\ parseFloat(q.maxPrice) # NaN)
          => (p.price.t = "number" /\ p.price.n <= parseFloat(q.maxPrice).n)
    /\ q.inStock = Str(<<"t","r","u","e">>) => (p.stock.t = "number" /\ p.stock.n > 0)
    /\ q.inStock = Str(<<"f","a","l","s","e">>) => p.stock = Whole(0)
    /\ Truthy(q.search) =>
          \/ IncludesSeq(LowerSeq(p.name.s), LowerSeq(q.search.s))
          \/ IsString(p.description)
                /\ IncludesSeq(LowerSeq(p.description.s), LowerSeq(q.search.s))

\* the list query of the claim's example: category Electronics, by price, descending
IsExampleQuery(q) ==
    /\ Truthy(q.category)
    /\ toLowerCase(q.category) = Str(<<"e","l","e","c","t","r","o","n","i","c","s">>)
    /\ sortFieldOf(q.sortBy) = "price"
    /\ orderOf(q.sortOrder) = -1
    /\ q.minPrice = Undefined /\ q.maxPrice = Undefined /\ q.inStock = Undefined
    /\ q.search = Undefined /\ safeNumber(q.page, 1) = 1 /\ safeNumber(q.limit, 10) >= 2

\* C13: a list query is answered with a page, totalProducts counts the
\* records of the catalog that pass every active filter, the filtered and
\* sorted records are those records, each once, and on the seed catalog the
\* example query gives Laptop then Smartphone.
C13_FilterSemantics ==
    req.op = "list" =>
        /\ res.status = 200
        /\ res.metadata.totalProducts
              = Cardinality({i \in 1..Len(products) : Satisfies(products[i], req.query)})
        /\ \A i \in 1..Len(products) :
              Satisfies(products[i], req.query)
                  <=> \E k \in 1..Len(filteredSorted(products, req.query)) :
                          filteredSorted(products, req.query)[k] = products[i]
        /\ (products = SeedProducts /\ IsExampleQuery(req.query)) =>
              res.products = <<SeedProducts[1], SeedProducts[2]>>

\* the metadata m and the page shown are right for the filtered and sorted
\* records: the page count is the ceiling of their number over the page size,
\* the page is the run of records that starts at (currentPage - 1) * pageSize,
\* hasNextPage tells of a record after that run and hasPrevPage of one before
\* it, and a page beyond the last is empty
MetadataRight(m, sorted, shown) ==
    /\ m.pageSize > 0 /\ m.currentPage > 0
    /\ m.totalProducts = Len(sorted)
    /\ m.totalPages * m.pageSize >= Len(sorted)
    /\ (m.totalPages - 1) * m.pageSize < Len(sorted) \/ (Len(sorted) = 0 /\ m.totalPages = 0)
    /\ shown = [k \in 1..Len(shown) |-> sorted[(m.currentPage - 1) * m.pageSize + k]]
    /\ Len(shown) <= m.pageSize
    /\ m.hasNextPage <=> \E k \in 1..Len(sorted) : k > m.currentPage * m.pageSize
    /\ m.hasNextPage => Len(shown) = m.pageSize
    /\ ~m.hasNextPage => (m.currentPage - 1) * m.pageSize + Len(shown) >= Len(sorted)
    /\ m.hasPrevPage <=> (m.currentPage - 1) * m.pageSize > 0
    /\ m.currentPage > m.totalPages => shown = <<>>

Answered(c) == clients[c].res # NoResponse

\* the request of the client c is a subtract of a whole quantity
WholeSubtract(c) ==
    /\ clients[c].req.op = "stock"
    /\ IsString(clients[c].req.stock.operation)
    /\ toLowerCase(clients[c].req.stock.operation) = Subtract
    /\ NumberIsInteger(clients[c].req.stock.quantity)
    /\ clients[c].req.stock.quantity.n > 0

\* the record of the seed catalog that the request of the client c names
SeedTarget(c) == findIndex(SeedProducts, parseInt(clients[c].req.id))

\* C15: of two creates with the same name submitted at once, handled in
\* either order, at most one succeeds; of two subtracts on the same record
\* whose quantities together exceed its stock, at most one succeeds.
C15_Serialized ==
    \A c, d \in DOMAIN clients :
        (c # d /\ Answered(c) /\ Answered(d)) =>
            /\ (clients[c].req.op = "create" /\ clients[d].req.op = "create"
                  /\ clients[c].req.body.name = clients[d].req.body.name)
                  => ~(clients[c].res.status = 201 /\ clients[d].res.status = 201)
            /\ (WholeSubtract(c) /\ WholeSubtract(d)
                  /\ clients[c].req.id = clients[d].req.id /\ SeedTarget(c) # 0
                  /\ clients[c].req.stock.quantity.n + clients[d].req.stock.quantity.n
                        > SeedProducts[SeedTarget(c)].stock.n)
                  => ~(clients[c].res.status = 200 /\ clients[d].res.status = 200)

\* the last request is an update of an id that parses and that no record has
AbsentTarget == req.op \in {"put", "patch"} /\ parseInt(req.id) # NaN /\ Target = 0

\* C16: an update of an id that no record has is answered NotFound, whatever
\* its payload is.
C16_LookupFirst == AbsentTarget => res = NotFound

\* C17: a full update, a partial update or a stock adjustment that succeeds
\* leaves the id and the createdAt of its record as they were, whatever keys
\* its payload carries.
C17_IdentityImmutable ==
    (req.op \in {"put", "patch", "stock"} /\ res.status = 200) =>
        /\ Target # 0
        /\ products[Target].id = pre.products[Target].id
        /\ products[Target].createdAt = pre.products[Target].createdAt

\* C18: a full update that succeeds leaves its record with the name and the
\* category of the payload, trimmed, with its price and its stock as numbers,
\* and with the description of the payload when it has one (the empty string
\* too), the description the record had only when the payload has none.
C18_PutReplaces ==
    (req.op = "put" /\ res.status = 200) =>
        /\ Target # 0
        /\ products[Target].name = trim(String(req.body.name))
        /\ products[Target].category = trim(String(req.body.category))
        /\ products[Target].price = parseFloat(req.body.price)
        /\ products[Target].stock = parseInt(req.body.stock)
        /\ products[Target].description =
              IF req.body.description # Undefined THEN req.body.description
              ELSE pre.products[Target].description

\* the operation of the last stock adjustment is 'add' or 'subtract', ignoring case
ValidOperation ==
    /\ IsString(req.stock.operation)
    /\ toLowerCase(req.stock.operation) \in {Add, Subtract}

\* the quantity of the last stock adjustment is a positive integer
ValidQuantity ==
    /\ req.stock.quantity \notin {Undefined, Null}
    /\ NumberIsInteger(Number(req.stock.quantity))
    /\ Number(req.stock.quantity).n > 0

\* C19: a stock adjustment of a record whose operation is not 'add' or
\* 'subtract' ignoring case, or whose quantity is not a positive integer, is
\* refused and changes nothing: no stock and no updatedAt.
C19_AdjustInputValidated ==
    (req.op = "stock" /\ Target # 0 /\ ~(ValidOperation /\ ValidQuantity)) =>
        /\ res.status >= 400
        /\ products = pre.products

\* the last request left the updatedAt of every record but its own as it was,
\* and set the updatedAt of its own, if it succeeded in changing it, to a
\* timestamp not before the one it had
UpdatedAtKept ==
    IF req.op \in {"put", "patch", "stock"} /\ res.status = 200
    THEN /\ Target # 0 /\ Len(products) = Len(pre.products)
         /\ products[Target].updatedAt.t = "isodate"
         /\ pre.products[Target].updatedAt.t = "isodate"
               => pre.products[Target].updatedAt.n <= products[Target].updatedAt.n
         /\ \A i \in 1..Len(products) :
               i # Target => products[i].updatedAt = pre.products[i].updatedAt
    ELSE IF req.op = "create" /\ res.status = 201
    THEN /\ Len(products) = Len(pre.products) + 1
         /\ products[Len(products)].updatedAt = Null
         /\ \A i \in 1..Len(pre.products) :
               products[i].updatedAt = pre.products[i].updatedAt
    ELSE IF req.op = "delete" /\ res.status = 200
    THEN Target # 0 /\ products = splice(pre.products, Target)
    ELSE products = pre.products

\* C20: a record has the updatedAt null until a full update, a partial update
\* or a stock adjustment of it succeeds, each of which sets it to a timestamp
\* not before the one it had; no query, no refused request and no request on
\* another record changes it.
C20_UpdatedAtLifecycle ==
    /\ \A i \in 1..Len(products) : products[i].updatedAt.t \in {"null", "isodate"}
    /\ UpdatedAtKept

\* the stock predicate that the list handler applies for the inStock parameter
stockPredicate(inStock) ==
    IF inStock = Str(<<"t","r","u","e">>) THEN "positive"
    ELSE IF inStock = Str(<<"f","a","l","s","e">>) THEN "zero"
    ELSE "none"

\* C21: in the answer to a list query the echoed inStock is true exactly when
\* the stock > 0 predicate was applied, false exactly when the stock == 0
\* predicate was applied and null exactly when no stock predicate was applied,
\* whatever the inStock parameter; the echoed sortBy and sortOrder are the
\* field and the direction that the records were sorted by.
C21_FiltersEcho ==
    (req.op = "list" /\ res.status = 200) =>
        /\ res.filters.inStock = True <=> stockPredicate(req.query.inStock) = "positive"
        /\ res.filters.inStock = False <=> stockPredicate(req.query.inStock) = "zero"
        /\ res.filters.inStock = Null <=> stockPredicate(req.query.inStock) = "none"
        /\ res.filters.sortBy = sortFieldOf(req.query.sortBy)
        /\ res.filters.sortOrder = (IF orderOf(req.query.sortOrder) = 1 THEN "asc" ELSE "desc")
\* C22: in the simple product API the id given to a newly created product is
\* the id of no product that existed before the create, the deleted ones
\* included.
C22_IdsNeverReused ==
    (api.req.op = "create" /\ api.res.status = 201) =>
        api.res.product.id \notin api.seen

====
